---- MODULE Spec2Model ----
(***************************************************************************)
(* PaperFlux: the document fetcher (src/services/paper_fetcher.py) and the *)
(* processing controls of the Streamlit page (app.py).                     *)
(*                                                                         *)
(* Python values are modelled as records with a uniform shape:             *)
(*   a value      [kind : "str" | "int" | "None", chars : sequence]        *)
(*   a raw entry  [top : keys of the entry, keys : keys of entry["paper"], *)
(*                 id, title, authors, summary, publishedAt]               *)
(* A string is the sequence of its pieces; a paper id is kept character by *)
(* character so that str.replace and str.format act on it.                 *)
(***************************************************************************)
EXTENDS Integers, Sequences, FiniteSets, TLC

\* ------------------------------------------------------------------ bounds
MaxLen == 2
NumSessions == 1
MaxThreads == 2

\* --------------------------------------------------------------- settings
PDF_BASE_URL == <<"https://arxiv.org/pdf/", "{id}", ".pdf">>

TEMP_DIR == "temp_papers"

\* ---------------------------------------------------------- python values
None == [kind |-> "None", chars |-> <<>>]

PyStr(chars) == [kind |-> "str", chars |-> chars]

\* str(x), as str.format applies it to its argument
Str(v) == IF v.kind = "None" THEN <<"None">> ELSE v.chars

\* bool(x) of an Optional[str] / of a character
Truthy(v) == v.kind # "None" /\ v.chars # <<>>

\* x.replace("/", "_") on the characters of a string
Replace(chars) == [i \in 1..Len(chars) |-> IF chars[i] = "/" THEN "_" ELSE chars[i]]

\* template.format(id=v): every "{id}" piece becomes str(v)
Format(tpl, v) ==
    LET out[i \in 0..Len(tpl)] ==
            IF i = 0 THEN <<>>
            ELSE out[i - 1] \o (IF tpl[i] = "{id}" THEN Str(v) ELSE <<tpl[i]>>)
    IN  out[Len(tpl)]

\* ------------------------------------------------------------ raw entries
PaperKeys == {"id", "title", "authors", "summary", "publishedAt"}

IdPlain == PyStr(<<"2", "5">>)
IdSlash == PyStr(<<"c", "s", "/", "9">>)
IdInt == [kind |-> "int", chars |-> <<"7">>]

Entry(top, keys, id) ==
    [top |-> top, keys |-> keys, id |-> id,
     title |-> "T", authors |-> "A", summary |-> "S", publishedAt |-> "P"]

\* the entries listings are drawn from: complete ones, one with an id that is
\* not a string, and ones lacking "paper", "id" or "title"
RawEntries ==
    { Entry({"paper"}, PaperKeys, IdPlain),
      Entry({"paper"}, PaperKeys, IdSlash),
      Entry({"paper"}, PaperKeys, IdInt),
      Entry({}, {}, None),
      Entry({"paper"}, PaperKeys \ {"id"}, None),
      Entry({"paper"}, PaperKeys \ {"title"}, IdPlain) }

Listings == UNION { [1..n -> RawEntries] : n \in 0..MaxLen }

\* what one HTTP GET can do: a status, or a network error; a download can in
\* addition fail to write its file
Responses ==
    { [neterr |-> FALSE, status |-> 200, ioerr |-> FALSE],
      [neterr |-> FALSE, status |-> 404, ioerr |-> FALSE],
      [neterr |-> TRUE, status |-> 0, ioerr |-> FALSE] }

DownloadResponses == Responses \cup { [neterr |-> FALSE, status |-> 200, ioerr |-> TRUE] }

NoResponse == [neterr |-> FALSE, status |-> 0, ioerr |-> FALSE]

\* ---------------------------------------------------------- paper_fetcher
Returned(v) == [raised |-> FALSE, exc |-> "", value |-> v]

Raised(e) == [raised |-> TRUE, exc |-> e, value |-> None]

fetch_papers_NoRaise(response) == Returned(None)

\* fetch_papers: the listing on HTTP 200, an exception otherwise
fetch_papers(response) ==
    IF response.neterr THEN Raised("ClientError")
    ELSE IF response.status = 200 THEN Returned(None)
    ELSE Raised("Exception")

\* paper_entry["paper"]["id"] can be evaluated
HasId(paper_entry) == "paper" \in paper_entry.top /\ "id" \in paper_entry.keys

\* pdf_url of download_paper
DownloadUrl_Clean(paper_id) == Format(PDF_BASE_URL, PyStr(Replace(Str(paper_id))))

DownloadUrl(paper_id) == Format(PDF_BASE_URL, paper_id)

\* os.path.join(TEMP_DIR, f"{date}_{clean_id}.pdf")
FilePath(date, clean_id) ==
    PyStr(<<TEMP_DIR, "/", ToString(date), "_">> \o clean_id \o <<".pdf">>)

\* download_paper: the result, and the URL it computed (<<>> when none)
download_paper(paper_entry, response, date) ==
    IF ~HasId(paper_entry)
    THEN \* KeyError in the try block; the handler's f-string reads paper_id,
         \* which was never bound
         [result |-> Raised("UnboundLocalError"), pdf_url |-> <<>>, requested |-> FALSE]
    ELSE LET paper_id == paper_entry.id
             pdf_url == DownloadUrl(paper_id)
         IN  IF paper_id.kind # "str"
             THEN \* AttributeError on paper_id.replace, caught
                  [result |-> Returned(None), pdf_url |-> pdf_url, requested |-> FALSE]
             ELSE LET filepath == FilePath(date, Replace(paper_id.chars))
                  IN  IF response.neterr \/ response.status # 200 \/ response.ioerr
                      THEN [result |-> Returned(None), pdf_url |-> pdf_url, requested |-> TRUE]
                      ELSE [result |-> Returned(filepath), pdf_url |-> pdf_url, requested |-> TRUE]

EmptyDict == [k \in {} |-> None]

DictSet(d, k, v) == [x \in (DOMAIN d) \cup {k} |-> IF x = k THEN v ELSE d[x]]

\* the loop over zip(papers, results) that fills paper_paths
PaperPaths(papers, results) ==
    LET paper_paths[i \in 0..Len(papers)] ==
            IF i = 0 THEN EmptyDict
            ELSE IF Truthy(results[i])
                 THEN DictSet(paper_paths[i - 1], papers[i].id, results[i])
                 ELSE paper_paths[i - 1]
    IN  paper_paths[Len(papers)]

\* status[1] can be evaluated for every status in results
SubscriptOk(results) == \A i \in 1..Len(results) : results[i].kind # "None"

\* download_papers: gather the tasks, build paper_paths, count the successes
download_papers(papers, responses, date) ==
    LET tasks == [i \in 1..Len(papers) |-> download_paper(papers[i], responses[i], date)]
    IN  IF \E i \in 1..Len(papers) : tasks[i].result.raised
        THEN [raised |-> TRUE, exc |-> "UnboundLocalError", value |-> EmptyDict]
        ELSE LET results == [i \in 1..Len(papers) |-> tasks[i].result.value]
             IN  IF ~SubscriptOk(results)
                 THEN [raised |-> TRUE, exc |-> "TypeError", value |-> EmptyDict]
                 ELSE [raised |-> FALSE, exc |-> "",
                       value |-> PaperPaths(papers, results)]

NoRecord ==
    [paper_id |-> None, title |-> "", authors |-> "", summary |-> "",
     published_at |-> "", pdf_url |-> <<>>]

\* parse_paper_data: KeyError on the first missing key, the Paper otherwise
parse_paper_data(paper_entry) ==
    IF "paper" \notin paper_entry.top \/ paper_entry.keys # PaperKeys
    THEN [raised |-> TRUE, exc |-> "KeyError", value |-> NoRecord]
    ELSE [raised |-> FALSE, exc |-> "",
          value |-> [paper_id |-> paper_entry.id,
                     title |-> paper_entry.title,
                     authors |-> paper_entry.authors,
                     summary |-> paper_entry.summary,
                     published_at |-> paper_entry.publishedAt,
                     pdf_url |-> Format(PDF_BASE_URL, paper_entry.id)]]

\* ------------------------------------------------------------------ state
VARIABLES
    metadata,   \* the stored ProcessingMetadata record
    today,      \* the current date
    session,    \* st.session_state and the page shown, per browser session
    thread,     \* the background threads started by the button
    lastExit,   \* how process_papers_background was left most recently
    batch,      \* fetcher: the listing given to download_papers
    answers,    \* fetcher: what each entry's GET does
    calls,      \* fetcher: what each download_paper call did
    returned,   \* fetcher: what download_papers did
    records,    \* fetcher: what parse_paper_data did with each entry
    fpc         \* fetcher: which of the two have been applied

uiVars == <<metadata, today, session, thread, lastExit>>

fetcherVars == <<batch, answers, calls, returned, records, fpc>>

vars == <<metadata, today, session, thread, lastExit, batch, answers, calls, returned, records, fpc>>

Sessions == 1..NumSessions

Threads == 1..MaxThreads

FreshSession ==
    [inited |-> FALSE, processing_started |-> FALSE, should_process |-> FALSE,
     view |-> "none"]

IdleThread ==
    [pc |-> "idle", owner |-> 0, response |-> NoResponse, startDate |-> 0,
     interfered |-> FALSE]

GoneThread == [IdleThread EXCEPT !.pc = "gone"]

\* the thread once process_papers is over, by return or by an exception
Left(th, pc, response) ==
    [IdleThread EXCEPT !.pc = pc, !.owner = th.owner, !.response = response]

\* the thread runs process_papers_background and has not left it
Active(t) == thread[t].pc \in {"spawned", "entered", "running", "ret_ok", "ret_exc"}

\* the thread is inside process_papers
InRun(t) == thread[t].pc = "running"

UiInit ==
    /\ metadata = [last_processed_date |-> 0, is_processing |-> FALSE]
    /\ today = 1
    /\ session = [s \in Sessions |-> FreshSession]
    /\ thread = [t \in Threads |-> IdleThread]
    /\ lastExit = "none"

FetcherIdle ==
    /\ batch = <<>>
    /\ answers = <<>>
    /\ calls = <<>>
    /\ returned = [raised |-> FALSE, exc |-> "", value |-> EmptyDict]
    /\ records = <<>>
    /\ fpc = [downloaded |-> FALSE, parsed |-> FALSE]

Init == UiInit /\ FetcherIdle

\* ------------------------------------------------------------- the store
\* should_process_today: a run is due when the watermark is not today; with
\* is_processing set, either answer is allowed
should_process_today(md, date) ==
    IF md.is_processing THEN BOOLEAN ELSE {md.last_processed_date # date}

\* ---------------------------------------------------------------- the page
\* the session state after lines 70-74 and 96-98 of a script run
SessionState(s, sp) ==
    IF session[s].inited THEN session[s]
    ELSE [session[s] EXCEPT !.inited = TRUE, !.processing_started = FALSE,
                            !.should_process = sp]

\* which branch of the processing controls a script run takes (lines 99-114)
Controls(st, md) ==
    IF md.is_processing \/ st.processing_started THEN "processing"
    ELSE IF st.should_process THEN "button"
    ELSE "done"

\* a run of the script in which the button is not pressed
ScriptRun(s) ==
    /\ \E sp \in should_process_today(metadata, today) :
         LET st == SessionState(s, sp)
         IN  session' = [session EXCEPT ![s] = [st EXCEPT !.view = Controls(st, metadata)]]
    /\ UNCHANGED <<metadata, today, thread, lastExit>>
    /\ UNCHANGED fetcherVars

\* the thread object that threading.Thread(...) creates next
FirstIdle == CHOOSE t \in Threads : thread[t].pc = "idle" /\ \A u \in Threads : thread[u].pc = "idle" => t <= u

\* the button on the page is pressed: the script runs again and, where it
\* reaches st.sidebar.button, starts the thread and asks for a rerun
ClickProcess(s) ==
    /\ session[s].view = "button"
    /\ \E t \in Threads : thread[t].pc = "idle"
    /\ LET branch == Controls(session[s], metadata)
       IN  IF branch = "button"
           THEN /\ session' = [session EXCEPT ![s].view = "started"]
                /\ thread' = [thread EXCEPT ![FirstIdle] =
                        [IdleThread EXCEPT !.pc = "spawned", !.owner = s]]
           ELSE /\ session' = [session EXCEPT ![s].view = branch]
                /\ UNCHANGED thread
    /\ UNCHANGED <<metadata, today, lastExit>>
    /\ UNCHANGED fetcherVars

\* ------------------------------------------------- process_papers_background
\* line 35: st.session_state.processing_started = True
BackgroundEnter(t) ==
    /\ thread[t].pc = "spawned"
    /\ session' = [session EXCEPT ![thread[t].owner].processing_started = TRUE]
    /\ thread' = [thread EXCEPT ![t].pc = "entered"]
    /\ UNCHANGED <<metadata, today, lastExit>>
    /\ UNCHANGED fetcherVars

\* process_papers, transition to Running: is_processing = true before any I/O
RunBegin(t) ==
    /\ thread[t].pc = "entered"
    /\ metadata' = [metadata EXCEPT !.is_processing = TRUE]
    /\ thread' = [thread EXCEPT ![t].pc = "running",
                                ![t].startDate = metadata.last_processed_date]
    /\ UNCHANGED <<today, session, lastExit>>
    /\ UNCHANGED fetcherVars

\* the entries of a listing that normalise
Normalized(listing) == SelectSeq(listing, LAMBDA e : ~parse_paper_data(e).raised)

\* whether download_papers can raise / can return, over the listings of the
\* day and what their downloads do (the date only names the files)
WorkRaises ==
    { download_papers(Normalized(listing), rs, 1).raised :
        listing \in Listings, rs \in [1..MaxLen -> DownloadResponses] }

\* the rest of process_papers: it awaits fetch_papers, normalises the listing
\* and downloads the documents, then writes the metadata. Completed sets
\* is_processing = false and last_processed_date = today; an exception of
\* fetch_papers or download_papers ends the run as Failed, which sets
\* is_processing = false and leaves the watermark
RunWork(t) ==
    /\ thread[t].pc = "running"
    /\ \E response \in Responses, raised \in WorkRaises :
         IF fetch_papers(response).raised \/ raised
         THEN /\ metadata' = [metadata EXCEPT !.is_processing = FALSE]
              /\ thread' = [thread EXCEPT ![t] = Left(thread[t], "ret_exc", response)]
         ELSE /\ metadata' = [last_processed_date |-> today, is_processing |-> FALSE]
              /\ thread' = [u \in Threads |->
                     IF u = t THEN Left(thread[u], "ret_ok", response)
                     ELSE IF InRun(u) /\ metadata.last_processed_date # today
                          THEN [thread[u] EXCEPT !.interfered = TRUE]
                          ELSE thread[u]]
    /\ UNCHANGED <<today, session, lastExit>>
    /\ UNCHANGED fetcherVars

\* line 37: process_papers returned
BackgroundReturn(t) ==
    /\ thread[t].pc = "ret_ok"
    /\ session' = [session EXCEPT ![thread[t].owner].processing_started = FALSE]
    /\ thread' = [thread EXCEPT ![t] = GoneThread]
    /\ lastExit' = "returned"
    /\ UNCHANGED <<metadata, today>>
    /\ UNCHANGED fetcherVars

BackgroundExcept_NoReset(t) ==
    /\ thread[t].pc = "ret_exc"
    /\ thread' = [thread EXCEPT ![t] = GoneThread]
    /\ lastExit' = "caught"
    /\ UNCHANGED <<metadata, today, session>>
    /\ UNCHANGED fetcherVars

\* lines 38-40: process_papers raised
BackgroundExcept(t) ==
    /\ thread[t].pc = "ret_exc"
    /\ session' = [session EXCEPT ![thread[t].owner].processing_started = FALSE]
    /\ thread' = [thread EXCEPT ![t] = GoneThread]
    /\ lastExit' = "caught"
    /\ UNCHANGED <<metadata, today>>
    /\ UNCHANGED fetcherVars

ThreadStep(t) ==
    \/ BackgroundEnter(t)
    \/ RunBegin(t)
    \/ RunWork(t)
    \/ BackgroundReturn(t)
    \/ BackgroundExcept(t)

\* -------------------------------------------------------------- environment
\* the server process dies: its threads and session states are gone, the
\* stored metadata stays
Crash ==
    /\ thread' = [t \in Threads |-> IF Active(t) THEN GoneThread ELSE thread[t]]
    /\ session' = [s \in Sessions |-> FreshSession]
    /\ lastExit' = IF \E t \in Threads : Active(t) THEN "killed" ELSE lastExit
    /\ UNCHANGED <<metadata, today>>
    /\ UNCHANGED fetcherVars

Next ==
    \/ \E s \in Sessions : ScriptRun(s)
    \/ \E s \in Sessions : ClickProcess(s)
    \/ \E t \in Threads : ThreadStep(t)
    \/ Crash

Spec == Init /\ [][Next]_vars

\* the threads are scheduled and every network call of a run ends
FairSpec == Spec /\ WF_vars(\E t \in Threads : ThreadStep(t))

\* ------------------------------------------------- the fetcher on a batch
FetcherInit ==
    /\ UiInit
    /\ batch \in Listings
    /\ answers \in [1..Len(batch) -> DownloadResponses]
    /\ calls = <<>>
    /\ returned = [raised |-> FALSE, exc |-> "", value |-> EmptyDict]
    /\ records = <<>>
    /\ fpc = [downloaded |-> FALSE, parsed |-> FALSE]

\* download_papers(batch)
DownloadBatch ==
    /\ ~fpc.downloaded
    /\ calls' = [i \in 1..Len(batch) |-> download_paper(batch[i], answers[i], today)]
    /\ returned' = download_papers(batch, answers, today)
    /\ fpc' = [fpc EXCEPT !.downloaded = TRUE]
    /\ UNCHANGED <<batch, answers, records>>
    /\ UNCHANGED uiVars

\* parse_paper_data on every entry of the listing
ParseBatch ==
    /\ ~fpc.parsed
    /\ records' = [i \in 1..Len(batch) |-> parse_paper_data(batch[i])]
    /\ fpc' = [fpc EXCEPT !.parsed = TRUE]
    /\ UNCHANGED <<batch, answers, calls, returned>>
    /\ UNCHANGED uiVars

FetcherNext == DownloadBatch \/ ParseBatch

FetcherSpec == FetcherInit /\ [][FetcherNext]_vars

\* ------------------------------------------------------------- properties
\* the GET of the entry got HTTP 200 and its file was written
DownloadOk(response) == ~response.neterr /\ response.status = 200 /\ ~response.ioerr

\* the listing request did not get HTTP 200
FetchFailed(response) == response.neterr \/ response.status # 200

\* a required field of the entry is absent
Malformed(paper_entry) ==
    \/ "paper" \notin paper_entry.top
    \/ \E k \in PaperKeys : k \notin paper_entry.keys

\* the entry has all its fields and a string id
WellFormed(paper_entry) == ~Malformed(paper_entry) /\ paper_entry.id.kind = "str"

\* C1: for a batch of well-formed entries, whatever each download does,
\* download_papers returns normally and its result maps the id of every entry
\* whose own download succeeded to that entry's local path.
C1_FaultIsolation ==
    (fpc.downloaded /\ \A i \in 1..Len(batch) : WellFormed(batch[i]))
    => /\ ~returned.raised
       /\ \A i \in 1..Len(batch) :
            DownloadOk(answers[i])
            => /\ batch[i].id \in DOMAIN returned.value
               /\ returned.value[batch[i].id] = FilePath(today, Replace(batch[i].id.chars))

\* C2: when download_papers returns, its result holds exactly one outcome per
\* listed entry, also when entries share a paper id.
C2_OneOutcomePerEntry ==
    (fpc.downloaded /\ ~returned.raised)
    => Cardinality(DOMAIN returned.value) = Len(batch)

\* C3: at most one thread executes process_papers_background at any time.
C3_SingleRun == Cardinality({t \in Threads : Active(t)}) <= 1

\* C4: a script run that puts the button on the page does so only when
\* last_processed_date is not today and is_processing is false.
C4_ButtonOnlyWhenDue ==
    [][\A s \in Sessions :
         (session[s].view # "button" /\ session'[s].view = "button")
         => (metadata'.last_processed_date # today' /\ ~metadata'.is_processing)]_vars

\* C5: when the stored is_processing is true and no run is alive (the flag is
\* stale), no page is held in the "processing" state by it.
C5_StaleFlagRetried ==
    (metadata.is_processing /\ \A t \in Threads : ~Active(t))
    => \A s \in Sessions : session[s].view # "processing"

C7_MalformedSkipped ==
    \A i \in 1..Len(batch) :
        Malformed(batch[i])
        => /\ fpc.parsed => records[i].raised
           /\ fpc.downloaded => (~calls[i].result.raised /\ returned.exc # "UnboundLocalError")

\* C9: the pdf_url of the record parse_paper_data builds from an entry is the
\* URL download_paper uses for the same entry.
C9_SameUrl ==
    \A i \in 1..Len(batch) :
        (fpc.downloaded /\ fpc.parsed /\ ~records[i].raised /\ ~calls[i].result.raised)
        => records[i].value.pdf_url = calls[i].pdf_url

\* an entry whose id holds a "/" was requested and normalised
C9_Witness ==
    /\ fpc.downloaded
    /\ fpc.parsed
    /\ \E i \in 1..Len(batch) :
         /\ batch[i].id = IdSlash
         /\ calls[i].requested
         /\ ~records[i].raised
         /\ records[i].value.pdf_url = <<"https://arxiv.org/pdf/", "c", "s", "/", "9", ".pdf">>

\* C10: processing_started of a session is true only while one of its threads
\* executes process_papers_background; the step that leaves the function, by
\* return or through the except clause, leaves the flag false; and every
\* thread that entered the function leaves it (a thread object is never
\* started twice, so in the end none is inside).
C10_FlagFollowsRun ==
    /\ [](\A s \in Sessions :
            session[s].processing_started
            => \E t \in Threads : Active(t) /\ thread[t].owner = s)
    /\ [][\A t \in Threads :
            (thread[t].pc \in {"ret_ok", "ret_exc"} /\ thread'[t].pc = "gone")
            => \A s \in Sessions : thread[t].owner = s => ~session'[s].processing_started]_vars
    /\ <>[](\A t \in Threads : ~Active(t))

\* process_papers raised, the except clause ran, the page is still open
C10_Witness ==
    /\ lastExit = "caught"
    /\ \E s \in Sessions : session[s].inited /\ session[s].view = "started"
    /\ \A s \in Sessions : ~session[s].processing_started
====
